---------------------------- MODULE Spec2Model ----------------------------
(***************************************************************************)
(* Workflow graphs of the agent framework (backend/agents/common/graphs.py)*)
(* and the run loop that executes them.                                    *)
(*                                                                         *)
(* One run of one compiled graph is modelled.  StepState is a function     *)
(* from field names to values; its DOMAIN is the set of fields present.    *)
(* A node is executed in two steps: Invoke hands the current state to the  *)
(* node's coroutine, which then awaits its collaborators; the node's       *)
(* ...Return action picks the collaborators' results, computes the delta   *)
(* as the node body does, merges it and follows the node's edge.           *)
(* Spec is one run; ConcSpec is two runs interleaved on the same compiled  *)
(* graph, each with a state of its own in runs.                            *)
(***************************************************************************)
EXTENDS Integers, Sequences, FiniteSets, TLC

VARIABLES
    graph,      \* which compiled graph this run executes
    state,      \* StepState of the run
    current,    \* next node to invoke (or the node being executed), or END
    active,     \* set of nodes whose coroutine is executing
    trace,      \* history: names of the nodes invoked so far, in order
    seen,       \* history: the state handed to the node invoked last
    deltas,     \* history: the deltas returned so far, in order
    hist,       \* history: hist[1] is the caller's input, hist[i+1] the state merged after trace[i]
    results,    \* history: what the collaborators answered to each node that returned
    routed,     \* history: the state the last edge / routing function was evaluated on
    raised,     \* TRUE once a node's exception has aborted the run
    reply,      \* what the coroutine that awaits the run has received from it
    runs,       \* the runs in flight on one compiled graph, when several are started
    published,  \* history: the events the nodes of the run have published, in order
    returned,   \* what the agent method that awaited the run handed to its own caller
    push,       \* ChatbotAgent._setup_project: the locals of the template push loop
    chat        \* ChatbotAgent.process_message: the sessions table and the calls in flight

vars == <<graph, state, current, active, trace, seen, deltas, results, hist, routed, raised,
          reply, runs, published, returned, push, chat>>

(***************************************************************************)
(* Bounds                                                                  *)
(***************************************************************************)
\* cap on the number of node invocations explored in one run
MaxSteps == 12
\* longest task list the planning collaborator returns
MaxTasks == 2

END == "__end__"

Graphs == {"planner", "migration", "chatbot", "remediation", "codegen", "policy"}

(***************************************************************************)
(* Python helpers                                                          *)
(***************************************************************************)
\* the empty mapping {}
EmptyDict == << >>

\* d.get(k, default)
Get(d, k, default) == IF k \in DOMAIN d THEN d[k] ELSE default

\* None, as the value of an Optional[Dict] field
None == [none |-> TRUE]

\* truthiness of a mapping or a None: {} and None are falsy
TruthyDict(d) == d # None /\ DOMAIN d # {}

\* a merge that replaces the state by the delta
Merge_replace(s, d) == d

\* state' of merge(state, delta): every key of delta overwritten or added,
\* the other keys carried over
Merge(s, d) ==
    [k \in DOMAIN s \cup DOMAIN d |-> IF k \in DOMAIN d THEN d[k] ELSE s[k]]

\* number of occurrences of node n in a sequence of node names
Count(seq, n) == Cardinality({i \in 1..Len(seq) : seq[i] = n})

(***************************************************************************)
(* Planner graph                                                           *)
(***************************************************************************)
Templates == {"microservice-rest-api", "custom"}

Task(id, ag) == [task_id |-> id, agent |-> ag, input_params |-> "parameters"]

\* task lists the LLM planner can return (agent._plan_tasks), [] included
PlannedTaskLists ==
    {<<>>, <<Task("a1", "codegen")>>, <<Task("a1", "codegen"), Task("a2", "deployment")>>,
     <<Task("a1", "codegen"), [task_id |-> "a2", agent |-> "policy"]>>}

\* outcomes of agent._plan_tasks: a task list, or an exception
PlanResults ==
    {[raised |-> FALSE, tasks |-> ts] : ts \in {t \in PlannedTaskLists : Len(t) <= MaxTasks}}
        \cup {[raised |-> TRUE, error |-> "planning error"]}

\* PlannerAgent._fallback_plan
FallbackPlanOf(template) ==
    IF template = "microservice-rest-api"
    THEN <<Task("t1", "codegen"), Task("t2", "policy"), Task("t3", "deployment")>>
    ELSE <<Task("t1", "codegen")>>

plan_tasks(st, r) ==
    IF r.raised
    THEN [tasks |-> <<>>, status |-> "plan_failed", error |-> r.error]
    ELSE [tasks |-> r.tasks, status |-> "planned"]

fallback_plan(st) ==
    [tasks |-> FallbackPlanOf(st["template"]), status |-> "planned_fallback"]

\* store_workflow also resetting the task list
store_workflow_resetting(st) == [status |-> "stored", tasks |-> <<>>]

store_workflow(st) == [status |-> "stored"]

\* dispatch_tasks returning no status
dispatch_tasks_silent(st) == EmptyDict

dispatch_tasks(st) == [status |-> "in_progress"]

\* the keys dispatch_tasks reads from every task with task[...]
DispatchKeys == {"task_id", "agent", "input_params"}

\* the first task of the list that lacks one of them, Len + 1 if none does
RECURSIVE FirstIncomplete(_, _)
FirstIncomplete(tasks, i) ==
    IF i > Len(tasks) \/ ~(DispatchKeys \subseteq DOMAIN tasks[i]) THEN i
    ELSE FirstIncomplete(tasks, i + 1)

\* dispatch_tasks raises KeyError at the first such task
DispatchTasksRaises(st) == FirstIncomplete(st["tasks"], 1) <= Len(st["tasks"])

\* the event dispatch_tasks publishes for a task
TaskCreated(st, task) ==
    [detail_type |-> "task.created",
     detail |-> [workflow_id |-> st["workflow_id"], task_id |-> task["task_id"],
                 agent |-> task["agent"], input_params |-> task["input_params"]]]

\* the events node n publishes when handed st: dispatch_tasks publishes one per
\* task, in list order, until the loop ends or a task raises
Publishes(n, st) ==
    IF n = "dispatch_tasks" /\ graph = "planner"
    THEN [i \in 1..(FirstIncomplete(st["tasks"], 1) - 1) |-> TaskCreated(st, st["tasks"][i])]
    ELSE <<>>

\* needs_fallback looking at the status only
needs_fallback_statusonly(st) ==
    IF Get(st, "status", "") = "plan_failed" THEN "fallback_plan" ELSE "store_workflow"

needs_fallback(st) ==
    IF Get(st, "status", "") = "plan_failed" \/ Get(st, "tasks", <<>>) = <<>>
    THEN "fallback_plan"
    ELSE "store_workflow"

(***************************************************************************)
(* Remediation graph                                                       *)
(***************************************************************************)
RiskLevels == {"low", "medium", "high"}

\* results of agent._analyze_failure: the JSON object the LLM answered with (its
\* keys are not validated) or the rule-based analysis
Analyses ==
    {[category |-> "dependency", risk_level |-> rl, root_cause |-> "missing module"] :
        rl \in RiskLevels}
        \cup {[category |-> "dependency", risk_level |-> "low"],
              [risk_level |-> "low", root_cause |-> "missing module"]}

LogTexts == {"No module named 'requests'"}

\* results of agent._find_playbook: a playbook or None
Playbooks ==
    {[playbook_id |-> "pb", auto_fix_enabled |-> b] : b \in BOOLEAN} \cup {None}

\* results of agent._execute_playbook
ExecutionResults == {[outcome |-> o, playbook_id |-> "pb"] : o \in {"success", "failed"}}

\* the ceiling of route_after_execute
RetryCeiling == 3

fetch_logs(st, logs) == [logs |-> logs]

analyze_failure(st, analysis) == [analysis |-> analysis]

\* find_playbook reads analysis["category"]
FindPlaybookRaises(st) == "category" \notin DOMAIN st["analysis"]

find_playbook(st, playbook) == [playbook |-> playbook]

\* execute_playbook reporting a constant attempt number
execute_playbook_fixed(st, result) ==
    [execution_result |-> result, retry_count |-> 1]

\* execute_playbook leaving the counter as it found it
execute_playbook_nocount(st, result) ==
    [execution_result |-> result, retry_count |-> Get(st, "retry_count", 0)]

execute_playbook(st, result) ==
    [execution_result |-> result, retry_count |-> Get(st, "retry_count", 0) + 1]

\* RemediationAgent._notify_developer reads result['outcome'] and analysis['root_cause']
StoreAndNotifyRaises(st) ==
    LET result == Get(st, "execution_result", [outcome |-> "manual_intervention_required"])
    IN  \/ "outcome" \notin DOMAIN result
        \/ "root_cause" \notin DOMAIN Get(st, "analysis", EmptyDict)

\* store_and_notify clearing the attempt counter as it reports
store_and_notify_resetting(st) ==
    LET result == Get(st, "execution_result", [outcome |-> "manual_intervention_required"])
    IN  [outcome |-> Get(result, "outcome", "manual_intervention_required"),
         notification_sent |-> TRUE, retry_count |-> 0]

store_and_notify(st) ==
    LET result == Get(st, "execution_result", [outcome |-> "manual_intervention_required"])
    IN  [outcome |-> Get(result, "outcome", "manual_intervention_required"),
         notification_sent |-> TRUE]

\* route_after_playbook without the risk-level test
route_after_playbook_norisk(st) ==
    LET playbook == Get(st, "playbook", None)
    IN  IF TruthyDict(playbook) /\ Get(playbook, "auto_fix_enabled", FALSE)
        THEN "execute_playbook"
        ELSE "store_and_notify"

route_after_playbook(st) ==
    LET playbook == Get(st, "playbook", None)
        analysis == Get(st, "analysis", EmptyDict)
    IN  IF /\ TruthyDict(playbook)
           /\ Get(playbook, "auto_fix_enabled", FALSE)
           /\ Get(analysis, "risk_level", "") = "low"
        THEN "execute_playbook"
        ELSE "store_and_notify"

\* route_after_execute with the ceiling test off by one
route_after_execute_offbyone(st) ==
    LET result      == Get(st, "execution_result", EmptyDict)
        retry_count == Get(st, "retry_count", 0)
    IN  IF Get(result, "outcome", "") = "success" THEN "store_and_notify"
        ELSE IF retry_count <= RetryCeiling THEN "execute_playbook"
        ELSE "store_and_notify"

route_after_execute(st) ==
    LET result      == Get(st, "execution_result", EmptyDict)
        retry_count == Get(st, "retry_count", 0)
    IN  IF Get(result, "outcome", "") = "success" THEN "store_and_notify"
        ELSE IF retry_count < RetryCeiling THEN "execute_playbook"
        ELSE "store_and_notify"

(***************************************************************************)
(* Migration graph                                                         *)
(***************************************************************************)
\* a Jenkinsfile that is not a string (process_task passes the task's value on)
JenkinsfileNone == "<None>"

Jenkinsfiles == {"pipeline { stages }", "node { stage }", "echo hello", JenkinsfileNone}

\* the substring tests of MigrationAgent.parse_jenkinsfile
ContainsPipeline(jf) == jf = "pipeline { stages }"
ContainsNodeOrStage(jf) == jf \in {"pipeline { stages }", "node { stage }"}

\* the keys convert_to_github_actions and _create_combined_job index directly
ConvertKeys == {"triggers", "environment", "stages", "agent"}

\* MigrationAgent.parse_jenkinsfile, for a string (on None the `in` tests raise)
parse_jenkinsfile(jf) ==
    LET type == IF ContainsPipeline(jf) THEN "declarative"
                ELSE IF ContainsNodeOrStage(jf) THEN "scripted"
                ELSE "unknown"
    IN  [type |-> type,
         agent |-> "ubuntu-latest",
         stages |-> IF type = "unknown" THEN <<>> ELSE <<"Build">>,
         environment |-> EmptyDict,
         triggers |-> <<>>]

ParseJenkinsfileRaises(jf) == jf = JenkinsfileNone

\* JSON objects the LLM can answer the parsing prompt with
LlmPipelineData ==
    { EmptyDict,
      [type |-> "declarative", stages |-> <<"Build">>],
      [type |-> "declarative", agent |-> "windows-latest", stages |-> <<"Build">>,
       environment |-> EmptyDict, triggers |-> <<"cron">>],
      [type |-> "unknown", agent |-> "ubuntu-latest", stages |-> <<>>,
       environment |-> EmptyDict, triggers |-> <<>>] }

\* outcomes of the LLM call made for parsing
ParseLlmOutcomes == {[ok |-> TRUE, data |-> d] : d \in LlmPipelineData} \cup {[ok |-> FALSE]}

\* MigrationAgent.parse_jenkinsfile_with_llm: a failed LLM call falls back to the
\* regex parser inside the method, and raises only if that parser raises
ParseJenkinsfileWithLlmRaises(jf, r) == ~r.ok /\ ParseJenkinsfileRaises(jf)

parse_jenkinsfile_with_llm(jf, r) == IF r.ok THEN r.data ELSE parse_jenkinsfile(jf)

parse_with_llm(st, r) ==
    IF ParseJenkinsfileWithLlmRaises(st["jenkinsfile_content"], r)
    THEN [pipeline_data |-> EmptyDict, parse_method |-> "llm_failed"]
    ELSE LET pipeline_data == parse_jenkinsfile_with_llm(st["jenkinsfile_content"], r)
         IN  [pipeline_data |-> pipeline_data,
              parse_method |-> "llm",
              runner |-> Get(pipeline_data, "agent", "ubuntu-latest")]

parse_with_regex(st) ==
    LET pipeline_data == parse_jenkinsfile(st["jenkinsfile_content"])
    IN  [pipeline_data |-> pipeline_data,
         parse_method |-> "regex",
         runner |-> Get(pipeline_data, "agent", "ubuntu-latest")]

\* a workflow document: where it came from and the kinds of run steps in it;
\* EmptyYaml is the empty string
EmptyYaml == [src |-> "", steps |-> {}]

LlmYamls == {EmptyYaml, [src |-> "llm", steps |-> {"unix", "win"}]}

\* outcomes of the LLM call made for generation
GenerateLlmOutcomes == {[ok |-> TRUE, text |-> y] : y \in LlmYamls} \cup {[ok |-> FALSE]}

\* MigrationAgent.convert_to_github_actions indexes pipeline_data[...] directly
ConvertRaises(pipeline_data) == ~(ConvertKeys \subseteq DOMAIN pipeline_data)

\* yaml.dump(convert_to_github_actions(pipeline_data, project_name))
TemplateYaml(pipeline_data) ==
    [src |-> "template",
     steps |-> IF pipeline_data["stages"] = <<>> THEN {} ELSE {"unix"}]

\* MigrationAgent._clean_platform_commands
CleanPlatformCommands(yaml, runner) ==
    IF yaml = EmptyYaml THEN yaml
    ELSE IF runner \in {"ubuntu-latest", "macos-latest"}
         THEN [yaml EXCEPT !.steps = @ \ {"win"}]
    ELSE IF runner = "windows-latest"
         THEN [yaml EXCEPT !.steps = @ \ {"unix"}]
    ELSE yaml

\* MigrationAgent.generate_workflow_with_llm: a failed LLM call falls back to the
\* template inside the method, and raises only if the converter raises
GenerateWorkflowWithLlmRaises(pipeline_data, g) == ~g.ok /\ ConvertRaises(pipeline_data)

generate_workflow_with_llm(pipeline_data, g) ==
    IF g.ok
    THEN CleanPlatformCommands(g.text, Get(pipeline_data, "agent", "ubuntu-latest"))
    ELSE TemplateYaml(pipeline_data)

generate_with_llm(st, g) ==
    IF GenerateWorkflowWithLlmRaises(st["pipeline_data"], g)
    THEN [workflow_yaml |-> EmptyYaml, generation_method |-> "llm_failed"]
    ELSE [workflow_yaml |-> generate_workflow_with_llm(st["pipeline_data"], g),
          generation_method |-> "llm"]

generate_with_template(st) ==
    [workflow_yaml |-> TemplateYaml(st["pipeline_data"]), generation_method |-> "template"]

cleanup_platform(st) ==
    [cleaned_yaml |->
        CleanPlatformCommands(st["workflow_yaml"], Get(st, "runner", "ubuntu-latest"))]

\* readings of the clock (datetime.utcnow)
Times == {"t1", "t2"}

\* build_report returning the report and the warnings without the success flag
build_report_nosuccess(st, now) ==
    [migration_report |->
        [source_type |-> "Jenkins", target_type |-> "GitHub Actions",
         pipeline_type |-> Get(st["pipeline_data"], "type", "unknown"),
         parse_method |-> Get(st, "parse_method", "unknown"),
         generation_method |-> Get(st, "generation_method", "unknown"),
         timestamp |-> now],
     warnings |-> <<>>]

build_report(st, now) ==
    LET pipeline_data == st["pipeline_data"]
        w1 == IF Get(pipeline_data, "triggers", <<>>) = <<>>
              THEN <<"No triggers found in Jenkinsfile. Default push trigger added.">>
              ELSE <<>>
        w2 == IF Get(pipeline_data, "type", "") = "scripted"
              THEN <<"Scripted pipeline detected. Manual review recommended for complex logic.">>
              ELSE <<>>
        report ==
            [source_type |-> "Jenkins",
             target_type |-> "GitHub Actions",
             pipeline_type |-> Get(pipeline_data, "type", "unknown"),
             stages_converted |-> Len(Get(pipeline_data, "stages", <<>>)),
             environment_variables |-> Cardinality(DOMAIN Get(pipeline_data, "environment", EmptyDict)),
             triggers_converted |-> Len(Get(pipeline_data, "triggers", <<>>)),
             parse_method |-> Get(st, "parse_method", "unknown"),
             generation_method |-> Get(st, "generation_method", "unknown"),
             timestamp |-> now]
    IN  [migration_report |-> report, warnings |-> w1 \o w2, success |-> TRUE]

\* route_after_parse with the test for type 'unknown' inverted
route_after_parse_inverted(st) ==
    IF Get(st, "parse_method", "") = "llm_failed"
          \/ ~TruthyDict(Get(st, "pipeline_data", EmptyDict))
    THEN "parse_with_regex"
    ELSE IF Get(st["pipeline_data"], "type", "") # "unknown" THEN "parse_with_regex"
    ELSE "generate_with_llm"

\* route_after_parse without the test for an empty pipeline_data
route_after_parse_noempty(st) ==
    IF Get(st, "parse_method", "") = "llm_failed" THEN "parse_with_regex"
    ELSE IF Get(Get(st, "pipeline_data", EmptyDict), "type", "") = "unknown"
    THEN "parse_with_regex"
    ELSE "generate_with_llm"

route_after_parse(st) ==
    IF Get(st, "parse_method", "") = "llm_failed"
          \/ ~TruthyDict(Get(st, "pipeline_data", EmptyDict))
    THEN "parse_with_regex"
    ELSE IF Get(st["pipeline_data"], "type", "") = "unknown" THEN "parse_with_regex"
    ELSE "generate_with_llm"

\* route_after_generate returning a name its branch mapping does not declare
route_after_generate_undeclared(st) ==
    IF Get(st, "generation_method", "") = "llm_failed"
          \/ Get(st, "workflow_yaml", EmptyYaml) = EmptyYaml
    THEN "generate_template"
    ELSE "cleanup_platform"

route_after_generate(st) ==
    IF Get(st, "generation_method", "") = "llm_failed"
          \/ Get(st, "workflow_yaml", EmptyYaml) = EmptyYaml
    THEN "generate_with_template"
    ELSE "cleanup_platform"

(***************************************************************************)
(* Chatbot graph                                                           *)
(***************************************************************************)
\* a text is a sequence of fragments; "" is <<>>
DefaultIntentResponse == <<"I'm here to help with your DevOps tasks!">>

\* JSON objects agent.analyze_intent can return
IntentAnalyses ==
    {[intent |-> i, action_needed |-> a, parameters |-> [description |-> "d"],
      response |-> <<"reply">>] : i \in {"workflow", "general"}, a \in BOOLEAN}
        \cup {[intent |-> "general", response |-> <<"reply">>]}

\* results of agent.execute_action
ActionResults == {[workflow_id |-> "wf-9"], [error |-> "timeout"], EmptyDict}

\* ChatbotAgent._format_action_response
FormatActionResponse(response, intent, action_result) ==
    IF "error" \in DOMAIN action_result
    THEN response \o <<"I encountered an error", action_result["error"]>>
    ELSE IF intent = "workflow"
    THEN response \o <<"Workflow created! ID", Get(action_result, "workflow_id", "N/A")>>
    ELSE response

analyze_intent(st, analysis) ==
    [intent |-> Get(analysis, "intent", "general"),
     action_needed |-> Get(analysis, "action_needed", FALSE),
     intent_parameters |-> Get(analysis, "parameters", EmptyDict),
     intent_response |-> Get(analysis, "response", DefaultIntentResponse)]

execute_action(st, result) == [action_result |-> result]

compose_response(st) ==
    LET response      == Get(st, "intent_response", <<>>)
        action_result == Get(st, "action_result", None)
    IN  [final_response |->
            IF TruthyDict(action_result)
            THEN FormatActionResponse(response, st["intent"], action_result)
            ELSE response]

\* needs_action deciding on the intent instead of the action_needed flag
needs_action_by_intent(st) ==
    IF Get(st, "intent", "general") # "general" THEN "execute_action" ELSE "compose_response"

needs_action(st) ==
    IF Get(st, "action_needed", FALSE) THEN "execute_action" ELSE "compose_response"

(***************************************************************************)
(* CodeGen graph                                                           *)
(***************************************************************************)
\* results of agent._generate_from_templates: file name -> content
GeneratedFiles == {[main |-> "code"], [main |-> "code", dockerfile |-> "FROM"]}

\* results of agent._generate_readme
Readmes == {"# readme"}

\* results of agent._create_and_push_repository
RepoUrls == {"https://github.com/org/svc", "https://github.com/placeholder/svc"}

init_github(st) == EmptyDict

generate_templates(st, files) == [files |-> files]

\* agent._enhance_with_ai returns the files as they are
enhance_with_ai(st) == [files |-> st["files"]]

store_artifacts(st, now) == [artifact_key |-> <<"codegen", st["service_name"], now>>]

push_to_repo(st, repo_url) == [repo_url |-> repo_url]

generate_readme(st, readme) ==
    LET files == ("README.md" :> readme) @@ st["files"]
    IN  [files |-> files,
         readme |-> readme,
         files_generated |-> Cardinality(DOMAIN files),
         status |-> "completed"]

(***************************************************************************)
(* Policy graph.  policy/main.py imports build_policy_graph from           *)
(* common.graphs and calls it in PolicyAgent.__init__; graphs.py as kept   *)
(* here defines no such builder, so the chain and the node wrappers follow *)
(* the shape table of the specification, and the node bodies follow the    *)
(* PolicyAgent methods the wrappers are written for.                       *)
(***************************************************************************)
Severities == {"critical", "high", "medium", "low"}

\* results of PolicyAgent._load_policies
PolicySets ==
    {<<>>,
     <<[policy_id |-> "sec-1", name |-> "Secrets", severity |-> "critical",
        blocking |-> TRUE]>>,
     <<[policy_id |-> "ext-7", severity |-> "low"]>>}

\* findings the scanning LLM can answer with (its keys are not validated)
ScanFindings ==
    {<<>>,
     <<[policy_id |-> "sec-1", rule |-> "no secrets", severity |-> "critical",
        blocking |-> TRUE, auto_fix |-> TRUE, description |-> "hard-coded key"]>>,
     <<[policy_id |-> "style-1", severity |-> "info"]>>,
     <<[not_an_object |-> "No violations found"]>>}

\* fix lists the fixing LLM can answer with
FixLists == {<<>>, <<[policy_id |-> "sec-1", suggested |-> "use a secret store"]>>}

load_policies(st, policies) == [policies |-> policies]

\* PolicyAgent._scan_content indexes p['name'], p['policy_id'] and p['severity']
\* of every policy before its try block: KeyError when a table item lacks one
ScanContentRaises(st) ==
    \E i \in 1..Len(st["policies"]) :
        ~({"name", "policy_id", "severity"} \subseteq DOMAIN st["policies"][i])

\* PolicyAgent._scan_content asks nothing when no policy applies
scan_content(st, findings) ==
    [scan_results |-> IF st["policies"] = <<>> THEN <<>> ELSE findings]

\* the severity _evaluate_violations counts a finding under
SeverityOf(finding) ==
    LET severity == Get(finding, "severity", "medium")
    IN  IF severity \in Severities THEN severity ELSE "medium"

\* PolicyAgent._evaluate_violations calls finding.get on every element of the
\* list the LLM answered: AttributeError when an element is not a JSON object
\* (written [not_an_object |-> text] in ScanFindings)
EvaluateViolationsRaises(st) ==
    \E i \in 1..Len(st["scan_results"]) : "not_an_object" \in DOMAIN st["scan_results"][i]

\* PolicyAgent._evaluate_violations
evaluate_violations(st) ==
    LET scan == st["scan_results"]
        blocks(f) == Get(f, "blocking", FALSE) /\ SeverityOf(f) \in {"critical", "high"}
    IN  [violations |->
            [i \in 1..Len(scan) |->
                [policy_id |-> Get(scan[i], "policy_id", "unknown"),
                 rule |-> Get(scan[i], "rule", ""),
                 severity |-> SeverityOf(scan[i]),
                 blocking |-> Get(scan[i], "blocking", FALSE),
                 auto_fix |-> Get(scan[i], "auto_fix", FALSE),
                 description |-> Get(scan[i], "description", ""),
                 location |-> Get(scan[i], "location", "")]],
         auto_fixable |-> \E i \in 1..Len(scan) : Get(scan[i], "auto_fix", FALSE),
         approved |-> ~\E i \in 1..Len(scan) : blocks(scan[i]),
         severity_summary |->
            [sev \in Severities |->
                Cardinality({i \in 1..Len(scan) : SeverityOf(scan[i]) = sev})]]

\* PolicyAgent._suggest_fixes asks nothing when no violation is auto-fixable
suggest_fixes(st, fixes) ==
    LET violations == st["violations"]
    IN  [suggested_fixes |->
            IF \E i \in 1..Len(violations) : violations[i]["auto_fix"]
            THEN fixes ELSE <<>>]

\* PolicyAgent._build_report
policy_build_report(st, now) ==
    [report |->
        [approved |-> Get(st, "approved", TRUE),
         content_type |-> Get(st, "content_type", "unknown"),
         severity_summary |-> Get(st, "severity_summary", [sev \in Severities |-> 0]),
         violations |-> Get(st, "violations", <<>>),
         suggested_fixes |-> Get(st, "suggested_fixes", <<>>),
         policies_evaluated |-> Len(Get(st, "policies", <<>>)),
         timestamp |-> now]]

\* str(e) of the exception that escaped node n of a Policy run
ExceptionText(n) ==
    CASE n = "scan_content"        -> "'name'"
      [] n = "evaluate_violations" -> "'str' object has no attribute 'get'"
      [] OTHER                     -> "error in " \o n

\* the report of a gate that finds nothing
CleanReport ==
    [approved |-> TRUE, severity_summary |-> [sev \in Severities |-> 0],
     violations |-> <<>>, suggested_fixes |-> <<>>]

\* PolicyAgent.evaluate with the exception of the run left to propagate
evaluate_propagating(rep) ==
    IF rep.kind = "exception"
    THEN [kind |-> "exception", node |-> rep.node]
    ELSE [kind |-> "value", value |-> Get(rep.value, "report", CleanReport)]

\* PolicyAgent.evaluate: what it returns when graph.ainvoke ended with rep
evaluate(rep) ==
    IF rep.kind = "exception"
    THEN [kind |-> "value",
          value |-> [approved |-> TRUE, severity_summary |-> [sev \in Severities |-> 0],
                     violations |-> <<>>, suggested_fixes |-> <<>>,
                     error |-> ExceptionText(rep.node)]]
    ELSE [kind |-> "value", value |-> Get(rep.value, "report", CleanReport)]

\* MigrationAgent.migrate_pipeline: what it returns when graph.ainvoke ended
\* with rep, and the return statement that produced it
migrate_pipeline(rep) ==
    IF rep.kind = "exception"
    THEN [kind |-> "value", branch |-> "except",
          value |-> [success |-> FALSE, error |-> ExceptionText(rep.node)]]
    ELSE IF ~Get(rep.value, "success", FALSE)
    THEN [kind |-> "value", branch |-> "not_success",
          value |-> [success |-> FALSE,
                     error |-> Get(rep.value, "error", "Migration failed")]]
    ELSE [kind |-> "value", branch |-> "success",
          value |-> [success |-> TRUE,
                     github_workflow |-> Get(rep.value, "cleaned_yaml",
                                             Get(rep.value, "workflow_yaml", EmptyYaml)),
                     migration_report |-> Get(rep.value, "migration_report", EmptyDict),
                     warnings |-> Get(rep.value, "warnings", <<>>)]]

PolicyEntry == "load_policies"

\* the Policy chain with suggest_fixes left out
PolicyNext_nofixes(n) ==
    CASE n = "load_policies"       -> "scan_content"
      [] n = "scan_content"        -> "evaluate_violations"
      [] n = "evaluate_violations" -> "build_report"
      [] n = "suggest_fixes"       -> "build_report"
      [] n = "build_report"        -> END

\* the Policy chain
PolicyNext(n) ==
    CASE n = "load_policies"       -> "scan_content"
      [] n = "scan_content"        -> "evaluate_violations"
      [] n = "evaluate_violations" -> "suggest_fixes"
      [] n = "suggest_fixes"       -> "build_report"
      [] n = "build_report"        -> END

(***************************************************************************)
(* The compiled graphs: entry points, edges and the callers' inputs        *)
(***************************************************************************)
\* the entry points, with CodeGen entered at generate_templates
Entry_noinit(g) ==
    CASE g = "planner"     -> "plan_tasks"
      [] g = "migration"   -> "parse_with_llm"
      [] g = "chatbot"     -> "analyze_intent"
      [] g = "remediation" -> "fetch_logs"
      [] g = "codegen"     -> "generate_templates"
      [] g = "policy"      -> PolicyEntry

Entry(g) ==
    CASE g = "planner"     -> "plan_tasks"
      [] g = "migration"   -> "parse_with_llm"
      [] g = "chatbot"     -> "analyze_intent"
      [] g = "remediation" -> "fetch_logs"
      [] g = "codegen"     -> "init_github"
      [] g = "policy"      -> PolicyEntry

\* the node that follows node n once its delta is merged into st
NextNode(n, st) ==
    IF graph = "policy" THEN PolicyNext(n)
    ELSE
    CASE n = "plan_tasks"             -> needs_fallback(st)
      [] n = "fallback_plan"          -> "store_workflow"
      [] n = "store_workflow"         -> "dispatch_tasks"
      [] n = "dispatch_tasks"         -> END
      [] n = "parse_with_llm"         -> route_after_parse(st)
      [] n = "parse_with_regex"       -> "generate_with_llm"
      [] n = "generate_with_llm"      -> route_after_generate(st)
      [] n = "generate_with_template" -> "cleanup_platform"
      [] n = "cleanup_platform"       -> "build_report"
      [] n = "build_report"           -> END
      [] n = "analyze_intent"         -> needs_action(st)
      [] n = "execute_action"         -> "compose_response"
      [] n = "compose_response"       -> END
      [] n = "fetch_logs"             -> "analyze_failure"
      [] n = "analyze_failure"        -> "find_playbook"
      [] n = "find_playbook"          -> route_after_playbook(st)
      [] n = "execute_playbook"       -> route_after_execute(st)
      [] n = "store_and_notify"       -> END
      [] n = "init_github"            -> "generate_templates"
      [] n = "generate_templates"     -> "enhance_with_ai"
      [] n = "enhance_with_ai"        -> "store_artifacts"
      [] n = "store_artifacts"        -> "push_to_repo"
      [] n = "push_to_repo"           -> "generate_readme"
      [] n = "generate_readme"        -> END

\* the branch mappings given to add_conditional_edges: the names each routing
\* function may return
Branches(n) ==
    CASE n = "plan_tasks"        -> {"fallback_plan", "store_workflow"}
      [] n = "parse_with_llm"    -> {"parse_with_regex", "generate_with_llm"}
      [] n = "generate_with_llm" -> {"generate_with_template", "cleanup_platform"}
      [] n = "analyze_intent"    -> {"execute_action", "compose_response"}
      [] n = "find_playbook"     -> {"execute_playbook", "store_and_notify"}
      [] n = "execute_playbook"  -> {"store_and_notify", "execute_playbook"}

\* the nodes whose outgoing edge is a routing function
RoutingSources ==
    {"plan_tasks", "parse_with_llm", "generate_with_llm", "analyze_intent",
     "find_playbook", "execute_playbook"}

\* the initial states, the Chatbot one carrying the result of an earlier action
Inputs_carrying(g) ==
    CASE g = "planner" ->
            {[template |-> t, parameters |-> [service_name |-> "svc"],
              requested_by |-> "unknown", workflow_id |-> "wf-1"] : t \in Templates}
      [] g = "migration" ->
            {[jenkinsfile_content |-> jf, project_name |-> "demo", use_llm |-> TRUE] :
                jf \in Jenkinsfiles}
      [] g = "chatbot" ->
            {[session_id |-> "s1", user_message |-> "deploy it",
              conversation_history |-> <<"deploy it">>,
              action_result |-> [workflow_id |-> "wf-9"]]}
      [] g = "remediation" ->
            {[pipeline_id |-> 7, project_id |-> "org/repo",
              event_data |-> [pipeline_id |-> 7, project_id |-> "org/repo"],
              retry_count |-> 0]}
      [] g = "codegen" ->
            {[service_name |-> "svc", language |-> "python", database |-> "postgresql",
              api_type |-> "rest", environment |-> "dev"]}
      [] g = "policy" ->
            {[content_type |-> "code", content |-> "key = 'abc'", context |-> EmptyDict,
              policy_ids |-> None]}

\* the initial states the agents pass to graph.ainvoke
Inputs(g) ==
    CASE g = "planner" ->
            {[template |-> t, parameters |-> [service_name |-> "svc"],
              requested_by |-> "unknown", workflow_id |-> "wf-1"] : t \in Templates}
      [] g = "migration" ->
            {[jenkinsfile_content |-> jf, project_name |-> "demo", use_llm |-> TRUE] :
                jf \in Jenkinsfiles}
      [] g = "chatbot" ->
            {[session_id |-> "s1", user_message |-> "deploy it",
              conversation_history |-> <<"deploy it">>]}
      [] g = "remediation" ->
            {[pipeline_id |-> 7, project_id |-> "org/repo",
              event_data |-> [pipeline_id |-> 7, project_id |-> "org/repo"],
              retry_count |-> 0]}
      [] g = "codegen" ->
            {[service_name |-> "svc", language |-> "python", database |-> "postgresql",
              api_type |-> "rest", environment |-> "dev"]}
      [] g = "policy" ->
            {[content_type |-> "code", content |-> "key = 'abc'", context |-> EmptyDict,
              policy_ids |-> None]}

(***************************************************************************)
(* The run loop                                                            *)
(***************************************************************************)
Done == current = END

\* nothing received yet from the run
NoReply == [kind |-> "none"]

\* the agent method that awaits the run has not returned
NoReturn == [kind |-> "none"]

\* no project setup is under way
NoPush == [pc |-> "idle"]

\* no message is being processed
NoChat == [pc |-> "idle"]

Init ==
    /\ graph \in Graphs
    /\ state \in Inputs(graph)
    /\ current = Entry(graph)
    /\ active = {}
    /\ trace = <<>>
    /\ seen = state
    /\ deltas = <<>>
    /\ results = <<>>
    /\ hist = <<state>>
    /\ routed = state
    /\ raised = FALSE
    /\ reply = NoReply
    /\ runs = <<>>
    /\ published = <<>>
    /\ returned = NoReturn
    /\ push = NoPush
    /\ chat = NoChat

\* the loop hands the latest state to the current node and awaits it
Invoke ==
    /\ ~raised
    /\ active = {}
    /\ current # END
    /\ Len(trace) < MaxSteps
    /\ active' = {current}
    /\ trace' = Append(trace, current)
    /\ seen' = state
    /\ UNCHANGED <<push, chat, returned, published, runs, graph, state, current, deltas, results, hist, routed, raised, reply>>

\* a node that calls no collaborator whose answer its delta depends on
NoResult == "-"

\* the delta node n returns for state st when its collaborators answer r
Delta(n, st, r) ==
    IF graph = "policy" /\ n = "build_report" THEN policy_build_report(st, r)
    ELSE
    CASE n = "plan_tasks"             -> plan_tasks(st, r)
      [] n = "fallback_plan"          -> fallback_plan(st)
      [] n = "store_workflow"         -> store_workflow(st)
      [] n = "dispatch_tasks"         -> dispatch_tasks(st)
      [] n = "parse_with_llm"         -> parse_with_llm(st, r)
      [] n = "parse_with_regex"       -> parse_with_regex(st)
      [] n = "generate_with_llm"      -> generate_with_llm(st, r)
      [] n = "generate_with_template" -> generate_with_template(st)
      [] n = "cleanup_platform"       -> cleanup_platform(st)
      [] n = "build_report"           -> build_report(st, r)
      [] n = "load_policies"          -> load_policies(st, r)
      [] n = "scan_content"           -> scan_content(st, r)
      [] n = "evaluate_violations"    -> evaluate_violations(st)
      [] n = "suggest_fixes"          -> suggest_fixes(st, r)
      [] n = "analyze_intent"         -> analyze_intent(st, r)
      [] n = "execute_action"         -> execute_action(st, r)
      [] n = "compose_response"       -> compose_response(st)
      [] n = "fetch_logs"             -> fetch_logs(st, r)
      [] n = "analyze_failure"        -> analyze_failure(st, r)
      [] n = "find_playbook"          -> find_playbook(st, r)
      [] n = "execute_playbook"       -> execute_playbook(st, r)
      [] n = "store_and_notify"       -> store_and_notify(st)
      [] n = "init_github"            -> init_github(st)
      [] n = "generate_templates"     -> generate_templates(st, r)
      [] n = "enhance_with_ai"        -> enhance_with_ai(st)
      [] n = "store_artifacts"        -> store_artifacts(st, r)
      [] n = "push_to_repo"           -> push_to_repo(st, r)
      [] n = "generate_readme"        -> generate_readme(st, r)

\* node n returns and its edge is evaluated on the state before the merge
Finish_premerge(n, r) ==
    /\ n \in active
    /\ LET d      == Delta(n, seen, r)
           merged == Merge(state, d)
       IN  /\ state' = merged
           /\ routed' = state
           /\ hist' = Append(hist, merged)
           /\ current' = NextNode(n, state)
           /\ deltas' = Append(deltas, d)
    /\ results' = Append(results, r)
    /\ active' = active \ {n}
    /\ published' = published \o Publishes(n, seen)
    /\ UNCHANGED <<push, chat, returned, runs, graph, trace, seen, raised, reply>>

\* node n returns, its collaborators having answered r: the delta is merged,
\* then n's edge is evaluated on the merged state
Finish(n, r) ==
    /\ n \in active
    /\ LET d      == Delta(n, seen, r)
           merged == Merge(state, d)
       IN  /\ state' = merged
           /\ routed' = merged
           /\ hist' = Append(hist, merged)
           /\ current' = NextNode(n, merged)
           /\ deltas' = Append(deltas, d)
    /\ results' = Append(results, r)
    /\ active' = active \ {n}
    /\ published' = published \o Publishes(n, seen)
    /\ UNCHANGED <<push, chat, returned, runs, graph, trace, seen, raised, reply>>

\* node n lets an exception escape: the loop does not catch it
Abort(n) ==
    /\ n \in active
    /\ raised' = TRUE
    /\ active' = active \ {n}
    /\ published' = published \o Publishes(n, seen)
    /\ UNCHANGED <<push, chat, returned, runs, graph, state, current, trace, seen, deltas, results, hist, routed, reply>>

\* the run has reached END: the awaiting coroutine receives the final state
AinvokeReturn ==
    /\ Done /\ ~raised
    /\ reply = NoReply
    /\ reply' = [kind |-> "state", value |-> state]
    /\ UNCHANGED <<push, chat, returned, published, runs, graph, state, current, active, trace, seen, deltas, results, hist, routed,
                   raised>>

\* a run aborted by an exception hands the awaiting coroutine a state instead
AinvokeRaise_partial ==
    /\ raised
    /\ reply = NoReply
    /\ reply' = [kind |-> "state", value |-> state]
    /\ UNCHANGED <<push, chat, returned, published, runs, graph, state, current, active, trace, seen, deltas, results, hist, routed,
                   raised>>

\* the run was aborted: the exception is raised in the awaiting coroutine
AinvokeRaise ==
    /\ raised
    /\ reply = NoReply
    /\ reply' = [kind |-> "exception", node |-> trace[Len(trace)]]
    /\ UNCHANGED <<push, chat, returned, published, runs, graph, state, current, active, trace, seen, deltas, results, hist, routed,
                   raised>>

\* Planner
PlanTasksReturn ==
    /\ "plan_tasks" \in active
    /\ \E r \in PlanResults : Finish("plan_tasks", r)
FallbackPlanReturn ==
    /\ "fallback_plan" \in active
    /\ Finish("fallback_plan", NoResult)
StoreWorkflowReturn ==
    /\ "store_workflow" \in active
    /\ Finish("store_workflow", NoResult)
DispatchTasksReturn ==
    /\ "dispatch_tasks" \in active
    /\ ~DispatchTasksRaises(seen)
    /\ Finish("dispatch_tasks", NoResult)
DispatchTasksRaise ==
    /\ "dispatch_tasks" \in active
    /\ DispatchTasksRaises(seen)
    /\ Abort("dispatch_tasks")

\* Migration
ParseWithLlmReturn ==
    /\ "parse_with_llm" \in active
    /\ \E r \in ParseLlmOutcomes : Finish("parse_with_llm", r)
ParseWithRegexReturn ==
    /\ "parse_with_regex" \in active
    /\ ~ParseJenkinsfileRaises(seen["jenkinsfile_content"])
    /\ Finish("parse_with_regex", NoResult)
ParseWithRegexRaise ==
    /\ "parse_with_regex" \in active
    /\ ParseJenkinsfileRaises(seen["jenkinsfile_content"])
    /\ Abort("parse_with_regex")
GenerateWithLlmReturn ==
    /\ "generate_with_llm" \in active
    /\ \E g \in GenerateLlmOutcomes : Finish("generate_with_llm", g)
GenerateWithTemplateReturn ==
    /\ "generate_with_template" \in active
    /\ ~ConvertRaises(seen["pipeline_data"])
    /\ Finish("generate_with_template", NoResult)
GenerateWithTemplateRaise ==
    /\ "generate_with_template" \in active
    /\ ConvertRaises(seen["pipeline_data"])
    /\ Abort("generate_with_template")
CleanupPlatformReturn ==
    /\ "cleanup_platform" \in active
    /\ Finish("cleanup_platform", NoResult)
BuildReportReturn ==
    /\ "build_report" \in active /\ graph = "migration"
    /\ \E now \in Times : Finish("build_report", now)

\* Chatbot
AnalyzeIntentReturn ==
    /\ "analyze_intent" \in active
    /\ \E a \in IntentAnalyses : Finish("analyze_intent", a)
ExecuteActionReturn ==
    /\ "execute_action" \in active
    /\ \E r \in ActionResults : Finish("execute_action", r)
ComposeResponseReturn ==
    /\ "compose_response" \in active
    /\ Finish("compose_response", NoResult)

\* Remediation
FetchLogsReturn ==
    /\ "fetch_logs" \in active
    /\ \E l \in LogTexts : Finish("fetch_logs", l)
AnalyzeFailureReturn ==
    /\ "analyze_failure" \in active
    /\ \E a \in Analyses : Finish("analyze_failure", a)
FindPlaybookReturn ==
    /\ "find_playbook" \in active
    /\ ~FindPlaybookRaises(seen)
    /\ \E p \in Playbooks : Finish("find_playbook", p)
FindPlaybookRaise ==
    /\ "find_playbook" \in active
    /\ FindPlaybookRaises(seen)
    /\ Abort("find_playbook")
ExecutePlaybookReturn ==
    /\ "execute_playbook" \in active
    /\ \E r \in ExecutionResults : Finish("execute_playbook", r)
StoreAndNotifyReturn ==
    /\ "store_and_notify" \in active
    /\ ~StoreAndNotifyRaises(seen)
    /\ Finish("store_and_notify", NoResult)
StoreAndNotifyRaise ==
    /\ "store_and_notify" \in active
    /\ StoreAndNotifyRaises(seen)
    /\ Abort("store_and_notify")

\* CodeGen
InitGithubReturn ==
    /\ "init_github" \in active
    /\ Finish("init_github", NoResult)
GenerateTemplatesReturn ==
    /\ "generate_templates" \in active
    /\ \E f \in GeneratedFiles : Finish("generate_templates", f)
EnhanceWithAiReturn ==
    /\ "enhance_with_ai" \in active
    /\ Finish("enhance_with_ai", NoResult)
StoreArtifactsReturn ==
    /\ "store_artifacts" \in active
    /\ \E now \in Times : Finish("store_artifacts", now)
PushToRepoReturn ==
    /\ "push_to_repo" \in active
    /\ \E u \in RepoUrls : Finish("push_to_repo", u)
GenerateReadmeReturn ==
    /\ "generate_readme" \in active
    /\ \E r \in Readmes : Finish("generate_readme", r)

\* Policy
LoadPoliciesReturn ==
    /\ "load_policies" \in active
    /\ \E p \in PolicySets : Finish("load_policies", p)
ScanContentReturn ==
    /\ "scan_content" \in active
    /\ ~ScanContentRaises(seen)
    /\ \E f \in ScanFindings : Finish("scan_content", f)
ScanContentRaise ==
    /\ "scan_content" \in active
    /\ ScanContentRaises(seen)
    /\ Abort("scan_content")
EvaluateViolationsReturn ==
    /\ "evaluate_violations" \in active
    /\ ~EvaluateViolationsRaises(seen)
    /\ Finish("evaluate_violations", NoResult)
EvaluateViolationsRaise ==
    /\ "evaluate_violations" \in active
    /\ EvaluateViolationsRaises(seen)
    /\ Abort("evaluate_violations")
SuggestFixesReturn ==
    /\ "suggest_fixes" \in active
    /\ \E f \in FixLists : Finish("suggest_fixes", f)
PolicyBuildReportReturn ==
    /\ "build_report" \in active /\ graph = "policy"
    /\ \E now \in Times : Finish("build_report", now)

\* PolicyAgent.evaluate resumes after `await self.graph.ainvoke(state)`
EvaluateReturn ==
    /\ graph = "policy"
    /\ reply # NoReply
    /\ returned = NoReturn
    /\ returned' = evaluate(reply)
    /\ UNCHANGED <<push, chat, published, runs, graph, state, current, active, trace, seen,
                   deltas, results,
                   hist, routed, raised, reply>>

\* MigrationAgent.migrate_pipeline resumes after `await self.graph.ainvoke(...)`
MigratePipelineReturn ==
    /\ graph = "migration"
    /\ reply # NoReply
    /\ returned = NoReturn
    /\ returned' = migrate_pipeline(reply)
    /\ UNCHANGED <<push, chat, published, runs, graph, state, current, active, trace, seen,
                   deltas, results,
                   hist, routed, raised, reply>>

Next ==
    \/ Invoke
    \/ PlanTasksReturn \/ FallbackPlanReturn \/ StoreWorkflowReturn \/ DispatchTasksReturn
    \/ DispatchTasksRaise
    \/ ParseWithLlmReturn \/ ParseWithRegexReturn \/ ParseWithRegexRaise
    \/ GenerateWithLlmReturn \/ GenerateWithTemplateReturn \/ GenerateWithTemplateRaise
    \/ CleanupPlatformReturn \/ BuildReportReturn
    \/ AnalyzeIntentReturn \/ ExecuteActionReturn \/ ComposeResponseReturn
    \/ FetchLogsReturn \/ AnalyzeFailureReturn \/ FindPlaybookReturn \/ FindPlaybookRaise
    \/ ExecutePlaybookReturn \/ StoreAndNotifyReturn \/ StoreAndNotifyRaise
    \/ InitGithubReturn \/ GenerateTemplatesReturn \/ EnhanceWithAiReturn
    \/ StoreArtifactsReturn \/ PushToRepoReturn \/ GenerateReadmeReturn
    \/ LoadPoliciesReturn \/ ScanContentReturn \/ ScanContentRaise
    \/ EvaluateViolationsReturn \/ EvaluateViolationsRaise
    \/ SuggestFixesReturn \/ PolicyBuildReportReturn
    \/ AinvokeReturn \/ AinvokeRaise
    \/ EvaluateReturn \/ MigratePipelineReturn

Spec == Init /\ [][Next]_vars

\* the event loop resumes every coroutine that can continue
FairSpec == Spec /\ WF_vars(Next)

(***************************************************************************)
(* Several runs on one compiled graph.  Each agent builds its graph once,  *)
(* in __init__, and every request awaits graph.ainvoke on a dict literal   *)
(* of its own; the coroutines of different requests interleave at their    *)
(* awaits.                                                                 *)
(***************************************************************************)
RunIds == {1, 2}

\* what the collaborators of node n can answer
Answers(n) ==
    CASE n = "plan_tasks"         -> PlanResults
      [] n = "parse_with_llm"     -> ParseLlmOutcomes
      [] n = "generate_with_llm"  -> GenerateLlmOutcomes
      [] n = "build_report"       -> Times
      [] n = "load_policies"      -> PolicySets
      [] n = "scan_content"       -> ScanFindings
      [] n = "suggest_fixes"      -> FixLists
      [] n = "analyze_intent"     -> IntentAnalyses
      [] n = "execute_action"     -> ActionResults
      [] n = "fetch_logs"         -> LogTexts
      [] n = "analyze_failure"    -> Analyses
      [] n = "find_playbook"      -> Playbooks
      [] n = "execute_playbook"   -> ExecutionResults
      [] n = "generate_templates" -> GeneratedFiles
      [] n = "store_artifacts"    -> Times
      [] n = "push_to_repo"       -> RepoUrls
      [] n = "generate_readme"    -> Readmes
      [] OTHER                    -> {NoResult}

\* node n, handed st, lets an exception escape
NodeRaises(n, st) ==
    CASE n = "parse_with_regex"       -> ParseJenkinsfileRaises(st["jenkinsfile_content"])
      [] n = "generate_with_template" -> ConvertRaises(st["pipeline_data"])
      [] n = "find_playbook"          -> FindPlaybookRaises(st)
      [] n = "store_and_notify"       -> StoreAndNotifyRaises(st)
      [] n = "dispatch_tasks"         -> DispatchTasksRaises(st)
      [] n = "scan_content"           -> ScanContentRaises(st)
      [] n = "evaluate_violations"    -> EvaluateViolationsRaises(st)
      [] OTHER                        -> FALSE

\* the run graph.ainvoke(input) creates
NewRun(input) ==
    [input |-> input, state |-> input, current |-> Entry(graph), active |-> {},
     trace |-> <<>>, results |-> <<>>, raised |-> FALSE, prior |-> {}]

ConcInit ==
    /\ graph \in Graphs
    /\ runs \in [RunIds -> {NewRun(i) : i \in Inputs(graph)}]
    /\ state = EmptyDict /\ seen = EmptyDict /\ routed = EmptyDict
    /\ current = END /\ active = {} /\ raised = FALSE /\ reply = NoReply
    /\ trace = <<>> /\ deltas = <<>> /\ results = <<>> /\ hist = <<>>
    /\ published = <<>> /\ returned = NoReturn /\ push = NoPush /\ chat = NoChat

\* run r hands its state to its current node; prior records the runs that had
\* ended when r's first node was invoked
ConcInvoke(r) ==
    LET run == runs[r]
    IN  /\ ~run.raised /\ run.active = {} /\ run.current # END
        /\ Len(run.trace) < MaxSteps
        /\ runs' = [runs EXCEPT ![r] =
                      [run EXCEPT !.active = {run.current},
                                  !.trace = Append(run.trace, run.current),
                                  !.prior = IF run.trace = <<>>
                                            THEN {q \in RunIds : runs[q].current = END}
                                            ELSE @]]
        /\ UNCHANGED <<push, chat, returned, published, graph, state, current, active, trace, seen, deltas, results, hist,
                       routed, raised, reply>>

\* a node of run r returns, and its delta is merged into the state of every run
ConcReturn_shared(r) ==
    LET run == runs[r]
    IN  \E n \in run.active : \E a \in Answers(n) :
            /\ ~NodeRaises(n, run.state)
            /\ LET d == Delta(n, run.state, a)
                   merged == Merge(run.state, d)
               IN  runs' = [q \in RunIds |->
                              IF q = r
                              THEN [run EXCEPT !.state = merged,
                                               !.current = NextNode(n, merged),
                                               !.active = {},
                                               !.results = Append(run.results, a)]
                              ELSE [runs[q] EXCEPT !.state = Merge(runs[q].state, d)]]
            /\ UNCHANGED <<push, chat, returned, published, graph, state, current, active, trace, seen, deltas, results, hist,
                           routed, raised, reply>>

\* a node of run r returns: its delta is merged into r's state, r's edge followed
ConcReturn(r) ==
    LET run == runs[r]
    IN  \E n \in run.active : \E a \in Answers(n) :
            /\ ~NodeRaises(n, run.state)
            /\ LET merged == Merge(run.state, Delta(n, run.state, a))
               IN  runs' = [runs EXCEPT ![r] =
                              [run EXCEPT !.state = merged,
                                          !.current = NextNode(n, merged),
                                          !.active = {},
                                          !.results = Append(run.results, a)]]
            /\ UNCHANGED <<push, chat, returned, published, graph, state, current, active, trace, seen, deltas, results, hist,
                           routed, raised, reply>>

\* a node of run r lets an exception escape: r is aborted
ConcRaise(r) ==
    LET run == runs[r]
    IN  \E n \in run.active :
            /\ NodeRaises(n, run.state)
            /\ runs' = [runs EXCEPT ![r] = [run EXCEPT !.active = {}, !.raised = TRUE]]
            /\ UNCHANGED <<push, chat, returned, published, graph, state, current, active, trace, seen, deltas, results, hist,
                           routed, raised, reply>>

ConcNext == \E r \in RunIds : ConcInvoke(r) \/ ConcReturn(r) \/ ConcRaise(r)

ConcSpec == ConcInit /\ [][ConcNext]_vars

(***************************************************************************)
(* ChatbotAgent._setup_project (chatbot/main.py): step 5, the loop that    *)
(* pushes the template files to the develop branch.  The method is one     *)
(* coroutine; every await of github.update_file is one step of PushSpec.   *)
(***************************************************************************)
\* the variables of the graph runs, which the agents' own methods leave alone
engine == <<graph, state, current, active, trace, seen, deltas, results, hist, routed, raised,
            reply, runs, published, returned>>

\* no graph run is under way
EngineIdle ==
    /\ graph = "chatbot" /\ runs = <<>>
    /\ state = EmptyDict /\ seen = EmptyDict /\ routed = EmptyDict
    /\ current = END /\ active = {} /\ raised = FALSE /\ reply = NoReply
    /\ trace = <<>> /\ deltas = <<>> /\ results = <<>> /\ hist = <<>>
    /\ published = <<>> /\ returned = NoReturn

\* range(3): the attempts made for one file
MaxAttempts == 3

\* the paths _generate_project_template returns, in the order of the dict
TemplateFiles == <<"main.py", "requirements.txt", ".gitignore">>

\* what the MCP GitHub server, or the HTTP client, does with one call
McpOutcomes ==
    {[kind |-> "ok", result |-> [commit |-> "c1"]],
     [kind |-> "mcp_error", error |-> "Branch develop not found"],
     [kind |-> "http_error", status |-> 500, text |-> "Internal Server Error"],
     [kind |-> "exception", text |-> "All connection attempts failed"],
     [kind |-> "exception", text |-> ""]}

\* call_mcp_github: every outcome, an exception included, becomes a dict
call_mcp_github(o) ==
    CASE o.kind = "ok"         -> [success |-> TRUE, result |-> o.result]
      [] o.kind = "mcp_error"  -> [success |-> FALSE, error |-> o.error]
      [] o.kind = "http_error" -> [success |-> FALSE, error |-> "HTTP 500: " \o o.text]
      [] o.kind = "exception"  -> [success |-> FALSE, error |-> o.text]

\* an Optional[str] is None or [str |-> text]; d.get(k) of a dict of strings
GetStr(d, k) == IF k \in DOMAIN d THEN [str |-> d[k]] ELSE None

\* truthiness of an Optional[str]: None and "" are falsy
TruthyStr(x) == x # None /\ x.str # ""

\* the locals when step 5 starts
PushStart ==
    [pc |-> "loop", file |-> 1, attempt |-> 0, last_error |-> None,
     files_pushed |-> <<>>, files_failed |-> <<>>, calls |-> <<>>]

\* the attempts for the current file are over: `if last_error:` records the
\* file as failed, and the outer loop takes the next file
NextFile(p) ==
    LET path == TemplateFiles[p.file]
    IN  [p EXCEPT !.files_failed = IF TruthyStr(p.last_error)
                                   THEN Append(@, [path |-> path, error |-> p.last_error.str])
                                   ELSE @,
                  !.file = @ + 1,
                  !.attempt = 0,
                  !.last_error = None,
                  !.pc = IF p.file = Len(TemplateFiles) THEN "done" ELSE "loop"]

\* the attempt loop without its break: a pushed file is pushed again
PushAttempt_nobreak(p, res) ==
    LET path == TemplateFiles[p.file]
        called == [p EXCEPT !.calls = Append(@, [file |-> p.file, path |-> path,
                                                  success |-> Get(res, "success", FALSE)])]
        after == IF Get(res, "success", FALSE)
                 THEN [called EXCEPT !.files_pushed = Append(@, path), !.last_error = None]
                 ELSE [called EXCEPT !.last_error = GetStr(res, "error")]
    IN  IF p.attempt + 1 = MaxAttempts THEN NextFile(after)
        ELSE [after EXCEPT !.attempt = @ + 1]

\* one pass of `for attempt in range(3)`: res is the dict update_file returned,
\* or [raised |-> text] when the call raised
PushAttempt(p, res) ==
    LET path == TemplateFiles[p.file]
        called == [p EXCEPT !.calls = Append(@, [file |-> p.file, path |-> path,
                                                  success |-> Get(res, "success", FALSE)])]
    IN  IF "raised" \in DOMAIN res
        THEN LET after == [called EXCEPT !.last_error = [str |-> res.raised]]
             IN  IF p.attempt + 1 = MaxAttempts THEN NextFile(after)
                 ELSE [after EXCEPT !.attempt = @ + 1]
        ELSE IF Get(res, "success", FALSE)
        THEN NextFile([called EXCEPT !.files_pushed = Append(@, path), !.last_error = None])
        ELSE LET after == [called EXCEPT !.last_error = GetStr(res, "error")]
             IN  IF p.attempt + 1 = MaxAttempts THEN NextFile(after)
                 ELSE [after EXCEPT !.attempt = @ + 1]

PushInit ==
    /\ EngineIdle
    /\ chat = NoChat
    /\ push = PushStart

\* the awaited github.update_file call of the current attempt completes
UpdateFile ==
    /\ push.pc = "loop"
    /\ \E o \in McpOutcomes : push' = PushAttempt(push, call_mcp_github(o))
    /\ UNCHANGED <<engine, chat>>

PushNext == UpdateFile

PushSpec == PushInit /\ [][PushNext]_vars

(***************************************************************************)
(* ChatbotAgent.process_message (chatbot/main.py): the session is read,    *)
(* extended and written back around the awaited graph run.  get_session    *)
(* and save_session contain no await, so a call is suspended only inside   *)
(* graph.ainvoke; ChatSpec has two calls for one session_id in flight.     *)
(***************************************************************************)
CallIds == {1, 2}

SessionId == "s-1"

\* the user_message of each call
UserMessages == <<<<"create a workflow">>, <<"what is the status?">>>>

\* the Item the sessions table holds for SessionId when the calls arrive, if any
StoredSessions ==
    {EmptyDict,
     [session_id |-> SessionId,
      messages |-> <<[role |-> "user", content |-> <<"hello">>],
                     [role |-> "assistant", content |-> <<"reply">>]>>]}

\* final states of the Chatbot graph, as far as process_message reads them
ChatResults ==
    {[final_response |-> <<"reply">>],
     [final_response |-> <<"reply", "Workflow created! ID", "wf-9">>],
     [final_response |-> <<"reply", "I encountered an error", "timeout">>]}

\* get_session: the stored Item, or a new session when there is none or
\* get_item raised (ok = FALSE)
get_session(item, ok) ==
    IF ok /\ item # EmptyDict THEN item
    ELSE [session_id |-> SessionId, messages |-> <<>>]

\* save_session: put_item replaces the Item; an exception is logged and dropped
save_session(item, messages, ok) ==
    IF ok THEN [session_id |-> SessionId, messages |-> messages] ELSE item

ChatInit ==
    /\ EngineIdle
    /\ push = NoPush
    /\ \E item \in StoredSessions :
          chat = [pc |-> "serving", item |-> item, table_error |-> FALSE,
                  calls |-> [c \in CallIds |-> [pc |-> "start", messages |-> <<>>]]]

\* process_message up to its await of graph.ainvoke
ProcessMessageStart(c) ==
    /\ chat.pc = "serving"
    /\ chat.calls[c].pc = "start"
    /\ \E ok \in BOOLEAN :
          LET session == get_session(chat.item, ok)
              messages == Append(Get(session, "messages", <<>>),
                                 [role |-> "user", content |-> UserMessages[c]])
          IN  chat' = [chat EXCEPT !.calls[c] = [pc |-> "awaiting", messages |-> messages],
                                   !.table_error = @ \/ ~ok]
    /\ UNCHANGED <<engine, push>>

\* graph.ainvoke returned: process_message appends the reply and saves
ProcessMessageResume(c) ==
    /\ chat.pc = "serving"
    /\ chat.calls[c].pc = "awaiting"
    /\ \E result \in ChatResults : \E ok \in BOOLEAN :
          LET assistant_message == Get(result, "final_response", DefaultIntentResponse)
              messages == Append(chat.calls[c].messages,
                                 [role |-> "assistant", content |-> assistant_message])
          IN  chat' = [chat EXCEPT !.calls[c] = [pc |-> "done", messages |-> messages],
                                   !.item = save_session(@, messages, ok),
                                   !.table_error = @ \/ ~ok]
    /\ UNCHANGED <<engine, push>>

ChatNext == \E c \in CallIds : ProcessMessageStart(c) \/ ProcessMessageResume(c)

ChatSpec == ChatInit /\ [][ChatNext]_vars

(***************************************************************************)
(* Properties                                                              *)
(***************************************************************************)
ExecCount == Count(trace, "execute_playbook")

\* the state merged after find_playbook passes the eligibility gate
GatePassed ==
    /\ Len(hist) >= 4
    /\ LET playbook == Get(hist[4], "playbook", None)
       IN  /\ TruthyDict(playbook)
           /\ Get(playbook, "auto_fix_enabled", FALSE)
           /\ Get(Get(hist[4], "analysis", EmptyDict), "risk_level", "") = "low"

\* no execute_playbook attempt so far reported outcome 'success'
NeverSuccess ==
    \A i \in 1..Len(deltas) :
        "execution_result" \in DOMAIN deltas[i]
            => Get(deltas[i]["execution_result"], "outcome", "") # "success"

\* C1: in a Remediation run started with retry_count = 0 whose gate passes and
\* whose execute_playbook never reports success, execute_playbook is the 4th,
\* 5th and 6th node invoked and nothing else is: after the third attempt the
\* next node is store_and_notify (exactly 3 invocations, not fewer, not 4).
C1_ExactlyThreeAttempts ==
    (graph = "remediation" /\ GatePassed /\ NeverSuccess) =>
        /\ ExecCount <= 3
        /\ \A i \in 4..6 : i <= Len(trace) => trace[i] = "execute_playbook"
        /\ (active = {} /\ Len(trace) \in 3..5) => current = "execute_playbook"
        /\ (active = {} /\ Len(trace) = 6) => current = "store_and_notify"
        /\ Len(trace) >= 7 => (trace[7] = "store_and_notify" /\ ExecCount = 3)
        /\ Len(trace) <= 7

C1_Witness ==
    /\ graph = "remediation" /\ GatePassed /\ NeverSuccess
    /\ Done /\ ExecCount = 3
    /\ trace[Len(trace)] = "store_and_notify"

\* C2: if no node raises, every run of every graph reaches the terminal marker,
\* and a Remediation run executes at most 7 nodes.
C2_Termination ==
    /\ <>(Done \/ raised)
    /\ [](graph = "remediation" => Len(trace) <= 7)

C2_Witness == graph = "remediation" /\ Done /\ ~raised /\ Len(trace) = 7

\* the merged state reports a failed primary parse
ParseFailed(s) ==
    \/ Get(s, "parse_method", "") = "llm_failed"
    \/ ~TruthyDict(Get(s, "pipeline_data", EmptyDict))

\* C3: in a Migration run, when the state merged after parse_with_llm has
\* parse_method = 'llm_failed' or an empty pipeline_data, the next node is
\* parse_with_regex, and at terminal parse_method is 'regex' in the state and
\* in migration_report.
C3_ParseFallback ==
    (graph = "migration" /\ Len(hist) >= 2 /\ ParseFailed(hist[2])) =>
        /\ (active = {} /\ Len(trace) = 1 /\ ~raised) => current = "parse_with_regex"
        /\ Len(trace) >= 2 => trace[2] = "parse_with_regex"
        /\ Done => /\ state["parse_method"] = "regex"
                   /\ state["migration_report"]["parse_method"] = "regex"

C3_Witness ==
    /\ graph = "migration" /\ Len(hist) >= 2 /\ ParseFailed(hist[2])
    /\ Done
    /\ state["migration_report"]["parse_method"] = "regex"

\* the merged state reports a primary parse that did not fail
ParseSucceeded(s) ==
    /\ Get(s, "parse_method", "") = "llm"
    /\ TruthyDict(Get(s, "pipeline_data", EmptyDict))

\* what C4 promises of a run whose state merged after parse_with_llm is s
StraightToGenerate ==
    /\ (active = {} /\ Len(trace) = 1) => current = "generate_with_llm"
    /\ Len(trace) >= 2 => trace[2] = "generate_with_llm"
    /\ Count(trace, "parse_with_regex") = 0
    /\ Done => state["migration_report"]["parse_method"] = "llm"

\* C4 as claimed: in a Migration run, when parse_with_llm returns a non-empty
\* pipeline_data with parse_method = 'llm', the run goes straight to
\* generate_with_llm, parse_with_regex is never invoked and the final report's
\* parse_method is 'llm'.
C4_Original ==
    (graph = "migration" /\ Len(hist) >= 2 /\ ParseSucceeded(hist[2]))
        => StraightToGenerate

\* C4 as amended: the same, for a pipeline_data whose type is not 'unknown'.
C4_StraightToGenerate ==
    (/\ graph = "migration" /\ Len(hist) >= 2 /\ ParseSucceeded(hist[2])
     /\ Get(hist[2]["pipeline_data"], "type", "") # "unknown")
        => StraightToGenerate

C4_Witness ==
    /\ graph = "migration" /\ Len(hist) >= 2 /\ ParseSucceeded(hist[2])
    /\ Get(hist[2]["pipeline_data"], "type", "") # "unknown"
    /\ Done
    /\ trace[2] = "generate_with_llm"
    /\ state["migration_report"]["parse_method"] = "llm"

\* the merged state reports a failed primary generation
GenerateFailed(s) ==
    \/ Get(s, "generation_method", "") = "llm_failed"
    \/ Get(s, "workflow_yaml", EmptyYaml) = EmptyYaml

\* C5: in a Migration run, when generate_with_llm reports generation_method =
\* 'llm_failed' or an empty workflow_yaml, generate_with_template is the next
\* node, the run is not aborted, and at terminal generation_method is
\* 'template' and success is TRUE, with parse_method 'regex' when the primary
\* parse had failed too.
C5_GenerateFallback ==
    \A i \in 1..Len(deltas) :
        (graph = "migration" /\ trace[i] = "generate_with_llm" /\ GenerateFailed(hist[i + 1]))
            => /\ (active = {} /\ Len(trace) = i /\ ~raised) => current = "generate_with_template"
               /\ Len(trace) > i => trace[i + 1] = "generate_with_template"
               /\ ~raised
               /\ Done => /\ state["generation_method"] = "template"
                          /\ state["success"] = TRUE
                          /\ (ParseFailed(hist[2]) => state["parse_method"] = "regex")

\* C6: in a Chatbot run, when the action_needed merged after analyze_intent is
\* falsy, execute_action is never invoked and compose_response is the node
\* after analyze_intent; when it is true, execute_action is invoked exactly
\* once, between analyze_intent and compose_response.
C6_ConditionalSkip ==
    (graph = "chatbot" /\ Len(hist) >= 2) =>
        IF ~Get(hist[2], "action_needed", FALSE)
        THEN /\ Count(trace, "execute_action") = 0
             /\ (active = {} /\ Len(trace) = 1) => current = "compose_response"
             /\ Len(trace) >= 2 => trace[2] = "compose_response"
        ELSE /\ Count(trace, "execute_action") <= 1
             /\ (active = {} /\ Len(trace) = 1) => current = "execute_action"
             /\ Len(trace) >= 2 => trace[2] = "execute_action"
             /\ Done => trace = <<"analyze_intent", "execute_action", "compose_response">>

C6_Witness ==
    /\ graph = "chatbot" /\ Done
    /\ ~Get(hist[2], "action_needed", FALSE)
    /\ Get(hist[2], "intent", "") = "workflow"
    /\ trace = <<"analyze_intent", "compose_response">>

\* C7: in every run of every graph, the set of field names of the state never
\* shrinks from one step to a later one, and a field that no delta merged in
\* between names has the same value at both, the state at terminal included.
C7_FieldsPersist ==
    /\ state = hist[Len(hist)]
    /\ \A i \in 1..Len(hist) : \A j \in i..Len(hist) :
        /\ DOMAIN hist[i] \subseteq DOMAIN hist[j]
        /\ \A f \in DOMAIN hist[i] :
              (\A k \in i..(j - 1) : f \notin DOMAIN deltas[k]) => hist[j][f] = hist[i][f]

C7_Witness ==
    /\ graph = "migration" /\ Done
    /\ Len(hist) >= 5
    /\ state["project_name"] = "demo"
    /\ "cleaned_yaml" \in DOMAIN state
    /\ state["parse_method"] = "regex"
    /\ hist[2]["parse_method"] = "llm"
    /\ state["runner"] = hist[3]["runner"]

\* C8: merging a node's delta sets every key of the delta to the delta's
\* value and leaves every other key with its previous value; store_workflow's
\* delta is {status}, so it changes status only and leaves tasks, workflow_id,
\* template and parameters as they were.
C8_MergeFrame ==
    [][deltas' # deltas =>
        LET d == deltas'[Len(deltas')]
        IN  /\ DOMAIN state' = DOMAIN state \cup DOMAIN d
            /\ \A k \in DOMAIN d : state'[k] = d[k]
            /\ \A k \in DOMAIN state \ DOMAIN d : state'[k] = state[k]
            /\ trace[Len(trace)] = "store_workflow" =>
                  /\ DOMAIN d = {"status"}
                  /\ state'["status"] = "stored"
                  /\ \A k \in {"tasks", "workflow_id", "template", "parameters"} :
                        k \in DOMAIN state /\ state'[k] = state[k]]_vars

C8_Witness ==
    /\ graph = "planner" /\ active = {}
    /\ Len(trace) >= 2 /\ Len(deltas) = Len(trace)
    /\ trace[Len(trace)] = "store_workflow"
    /\ state["status"] = "stored"
    /\ hist[Len(hist) - 1]["status"] # "stored"
    /\ state["tasks"] # <<>>

\* the state after node number k is executed once more on its own outcome,
\* its collaborators answering as they did
ReExecuted(k) == Merge(hist[k + 1], Delta(trace[k], hist[k + 1], results[k]))

\* C9: merging a delta twice gives the state one merge gives, for every state
\* and every delta of the run; and executing a node again on its own outcome
\* changes the state exactly when the node is execute_playbook.
C9_MergeIdempotent ==
    /\ \A i \in 1..Len(hist) : \A k \in 1..Len(deltas) :
          Merge(Merge(hist[i], deltas[k]), deltas[k]) = Merge(hist[i], deltas[k])
    /\ \A k \in 1..Len(deltas) :
          (ReExecuted(k) # hist[k + 1]) <=> (trace[k] = "execute_playbook")

C9_Witness ==
    /\ graph = "remediation" /\ Done
    /\ ExecCount = 2
    /\ \E k \in 1..Len(deltas) :
          /\ trace[k] = "execute_playbook"
          /\ ReExecuted(k)["retry_count"] = hist[k + 1]["retry_count"] + 1
          /\ Merge(hist[k + 1], deltas[k]) = hist[k + 1]

\* C10: within one run at most one node is executing; a node sees the state
\* made of the input and all deltas returned so far; and once a node has
\* returned, its delta is merged and its edge has been evaluated on the
\* merged state.
C10_MergeBeforeRoute ==
    /\ Cardinality(active) <= 1
    /\ active \subseteq {current}
    /\ Len(hist) = Len(deltas) + 1
    /\ \A k \in 1..Len(deltas) : hist[k + 1] = Merge(hist[k], deltas[k])
    /\ state = hist[Len(hist)]
    /\ active # {} => /\ Len(deltas) = Len(trace) - 1
                      /\ seen = hist[Len(trace)]
    /\ (active = {} /\ ~raised) =>
          /\ Len(deltas) = Len(trace)
          /\ routed = state
          /\ Len(trace) >= 1 => current = NextNode(trace[Len(trace)], state)

C10_Witness ==
    /\ graph = "remediation" /\ active = {}
    /\ ExecCount = 2 /\ Len(deltas) = Len(trace)
    /\ trace[Len(trace)] = "execute_playbook"
    /\ state["retry_count"] = 2 /\ seen["retry_count"] = 1
    /\ current = "execute_playbook"

\* C11: when a node raises an exception it does not catch, the run aborts at
\* that node: no node is invoked afterwards (the raising node included), the
\* state is not changed, the awaiting coroutine never receives a state, and
\* it does receive the exception of that node.
C11_AbortOnException ==
    /\ [](raised => (active = {} /\ ~Done /\ reply.kind # "state"))
    /\ [][raised => (raised' /\ trace' = trace /\ state' = state /\ current' = current)]_vars
    /\ [](raised => <>(reply.kind = "exception" /\ reply.node = trace[Len(trace)]))

C11_Witness ==
    /\ graph = "remediation" /\ raised
    /\ trace = <<"fetch_logs", "analyze_failure", "find_playbook">>
    /\ "playbook" \notin DOMAIN state
    /\ reply = [kind |-> "exception", node |-> "find_playbook"]

\* the state a run has after its nodes returned res[i], res[i+1], ... from
\* state st and node n on, with no other run in existence
RECURSIVE Alone(_, _, _, _)
Alone(st, n, res, i) ==
    IF n = END \/ i > Len(res) THEN st
    ELSE LET merged == Merge(st, Delta(n, st, res[i]))
         IN  Alone(merged, NextNode(n, merged), res, i + 1)

\* C12: for every interleaving of two runs on the same compiled graph, the
\* state of each run is at every moment the one it would have had alone with
\* the same node results, so no write of one run is visible in the other;
\* and the graph is never changed.
C12_RunsIsolated ==
    /\ [](\A r \in RunIds :
            runs[r].state = Alone(runs[r].input, Entry(graph), runs[r].results, 1))
    /\ [][graph' = graph]_vars

C12_Witness ==
    /\ graph = "remediation"
    /\ \A r \in RunIds : runs[r].current = END /\ runs[r].prior = {}
    /\ runs[1].state["retry_count"] = 3
    /\ "execution_result" \notin DOMAIN runs[2].state
    /\ runs[2].state["retry_count"] = 0
    /\ runs[2].state["outcome"] = "manual_intervention_required"

\* C13: in a Remediation run execute_playbook is invoked only if the state
\* merged after find_playbook holds a playbook with auto_fix_enabled true and
\* an analysis of risk_level 'low'; otherwise find_playbook is followed
\* directly by store_and_notify and execute_playbook is never invoked.
C13_AutoFixGate ==
    graph = "remediation" =>
        /\ ExecCount > 0 => GatePassed
        /\ (Len(hist) >= 4 /\ ~GatePassed) =>
              /\ ExecCount = 0
              /\ (active = {} /\ ~raised /\ Len(trace) = 3) => current = "store_and_notify"
              /\ Len(trace) >= 4 => trace[4] = "store_and_notify"

C13_Witness ==
    /\ graph = "remediation" /\ Done
    /\ state["playbook"] = [playbook_id |-> "pb", auto_fix_enabled |-> TRUE]
    /\ state["analysis"]["risk_level"] = "high"
    /\ trace = <<"fetch_logs", "analyze_failure", "find_playbook", "store_and_notify">>

\* the retry ceiling is exhausted: RetryCeiling attempts have returned, none
\* of them with outcome 'success'
CeilingExhausted ==
    /\ graph = "remediation" /\ NeverSuccess
    /\ Len(deltas) >= 3 + RetryCeiling
    /\ hist[4 + RetryCeiling]["retry_count"] = RetryCeiling

\* C14: in a Remediation run that exhausts the retry ceiling, no exception is
\* raised, store_and_notify is invoked exactly once and last, and the final
\* state has notification_sent = TRUE and an outcome that is
\* 'manual_intervention_required' or the outcome of the last attempt, never
\* 'success'.
C14_CeilingIsModeledFailure ==
    CeilingExhausted =>
        /\ ~raised
        /\ Count(trace, "store_and_notify") <= 1
        /\ Done =>
              /\ Count(trace, "store_and_notify") = 1
              /\ trace[Len(trace)] = "store_and_notify"
              /\ state["notification_sent"] = TRUE
              /\ state["outcome"] \in
                    {"manual_intervention_required", state["execution_result"]["outcome"]}
              /\ state["outcome"] # "success"

\* C15: in a Migration run, when the LLM call made for parsing fails the
\* state merged after parse_with_llm has parse_method = 'llm_failed', when
\* the LLM call made for generation fails the state merged after
\* generate_with_llm has generation_method = 'llm_failed', and the final
\* report names the fallback ('regex' / 'template'), not 'llm', for that step.
C15_FailureSentinel ==
    graph = "migration" =>
        \A k \in 1..Len(deltas) :
            /\ (trace[k] = "parse_with_llm" /\ ~results[k].ok) =>
                  /\ hist[k + 1]["parse_method"] = "llm_failed"
                  /\ Done => state["migration_report"]["parse_method"] = "regex"
            /\ (trace[k] = "generate_with_llm" /\ ~results[k].ok) =>
                  /\ hist[k + 1]["generation_method"] = "llm_failed"
                  /\ Done => state["migration_report"]["generation_method"] = "template"

\* C16: a Planner run that reaches the terminal marker has executed
\* plan_tasks, store_workflow, dispatch_tasks, or plan_tasks, fallback_plan,
\* store_workflow, dispatch_tasks; the second exactly when the state merged
\* after plan_tasks has status 'plan_failed' or an empty task list, and then
\* store_workflow and dispatch_tasks are handed the tasks fallback_plan
\* returned.
C16_PlannerSequences ==
    (graph = "planner" /\ Done) =>
        IF hist[2]["status"] = "plan_failed" \/ hist[2]["tasks"] = <<>>
        THEN /\ trace = <<"plan_tasks", "fallback_plan", "store_workflow", "dispatch_tasks">>
             /\ hist[3]["tasks"] = deltas[2]["tasks"]
             /\ hist[4]["tasks"] = deltas[2]["tasks"]
             /\ state["tasks"] = deltas[2]["tasks"]
        ELSE /\ trace = <<"plan_tasks", "store_workflow", "dispatch_tasks">>
             /\ hist[2]["tasks"] = deltas[1]["tasks"]
             /\ state["tasks"] = deltas[1]["tasks"]

C16_Witness ==
    /\ graph = "planner" /\ Done
    /\ hist[2]["status"] = "planned" /\ hist[2]["tasks"] = <<>>
    /\ trace = <<"plan_tasks", "fallback_plan", "store_workflow", "dispatch_tasks">>
    /\ state["tasks"] # <<>>

CodeGenChain ==
    <<"init_github", "generate_templates", "enhance_with_ai", "store_artifacts",
      "push_to_repo", "generate_readme">>

PolicyChain ==
    <<"load_policies", "scan_content", "evaluate_violations", "suggest_fixes",
      "build_report">>

\* C18: a Policy run invokes load_policies, scan_content,
\* evaluate_violations, suggest_fixes and build_report in that order, and at
\* the terminal marker each of them has been invoked exactly once.
C18_PolicyLinear ==
    graph = "policy" =>
        /\ Len(trace) <= Len(PolicyChain)
        /\ trace = SubSeq(PolicyChain, 1, Len(trace))
        /\ (active = {} /\ ~raised /\ Len(trace) < Len(PolicyChain)) =>
              current = PolicyChain[Len(trace) + 1]
        /\ Done => trace = PolicyChain

C18_Witness ==
    /\ graph = "policy" /\ Done
    /\ trace = PolicyChain
    /\ state["report"]["approved"] = FALSE
    /\ state["suggested_fixes"] # <<>>

\* the node that followed the node invoked k-th, once that is decided
Followed(k) == IF k < Len(trace) THEN trace[k + 1] ELSE current

\* C19: every time a node with a routing function has returned, the function
\* evaluated on the merged state gives one name, a key of the node's branch
\* mapping, and that node is the one the run continues with; the state is
\* the merged state, unchanged; and two evaluations on equal states gave the
\* same name.
C19_RoutingTotal ==
    /\ \A k \in 1..Len(deltas) :
          trace[k] \in RoutingSources =>
              /\ NextNode(trace[k], hist[k + 1]) \in Branches(trace[k])
              /\ Followed(k) = NextNode(trace[k], hist[k + 1])
              /\ hist[k + 1] = Merge(hist[k], deltas[k])
    /\ \A j, k \in 1..Len(deltas) :
          (trace[j] = trace[k] /\ hist[j + 1] = hist[k + 1]) => Followed(j) = Followed(k)
    /\ state = hist[Len(hist)]

C19_Witness ==
    /\ graph = "remediation" /\ Done
    /\ ExecCount = 2
    /\ Followed(3) = "execute_playbook"
    /\ Followed(4) = "execute_playbook"
    /\ Followed(5) = "store_and_notify"
    /\ state["execution_result"]["outcome"] = "success"

\* C20: a Chatbot run whose action_needed is false ends with no action_result
\* field and with final_response equal to its own intent_response, also when
\* another run on the same compiled graph has executed an action and holds
\* an action_result, before it or interleaved with it.
C20_NoLeakBetweenRuns ==
    graph = "chatbot" =>
        \A r \in RunIds :
            LET run == runs[r]
            IN  (run.current = END /\ ~run.state["action_needed"]) =>
                    /\ "action_result" \notin DOMAIN run.state
                    /\ run.state["final_response"] = run.state["intent_response"]
                    /\ run.trace = <<"analyze_intent", "compose_response">>

C20_Witness ==
    /\ graph = "chatbot"
    /\ runs[1].current = END /\ runs[2].current = END
    /\ runs[2].prior = {1}
    /\ Get(runs[1].state, "action_result", None) = [workflow_id |-> "wf-9"]
    /\ runs[1].state["final_response"] # runs[1].state["intent_response"]
    /\ ~runs[2].state["action_needed"]
    /\ "action_result" \notin DOMAIN runs[2].state
    /\ runs[2].state["final_response"] = runs[2].state["intent_response"]


\* the github.update_file calls made so far for the file at index f
CallsFor(f) == SelectSeq(push.calls, LAMBDA c : c.file = f)

\* C21: github.update_file is called at most 3 times per template file, never
\* again for a file after a call that reported success, and the files are
\* processed one after another: no call for a file follows a call for a later
\* file.
C21_BoundedPush ==
    push.pc # "idle" =>
        /\ \A f \in 1..Len(TemplateFiles) : Len(CallsFor(f)) <= 3
        /\ \A j \in 1..Len(push.calls) : \A k \in (j + 1)..Len(push.calls) :
              /\ push.calls[j].file <= push.calls[k].file
              /\ push.calls[j].success => push.calls[k].file # push.calls[j].file

\* the first file took all three attempts, the second succeeded at its second,
\* the third at its first
C21_Witness ==
    /\ push.pc = "done"
    /\ Len(push.calls) = 6
    /\ \A j \in 1..4 : ~push.calls[j].success
    /\ push.calls[5].success /\ push.calls[6].success
    /\ push.calls[3].file = 1 /\ push.calls[4].file = 2 /\ push.calls[6].file = 3

\* the paths recorded in files_failed
FailedPaths == {push.files_failed[i].path : i \in 1..Len(push.files_failed)}

PushedPaths == {push.files_pushed[i] : i \in 1..Len(push.files_pushed)}

\* C24: when the push loop ends, every template file path appears in exactly
\* one of files_pushed and files_failed, and len(pushed) + len(failed) equals
\* total, whatever the results of the push calls were.
C24_EveryFileAccounted ==
    push.pc = "done" =>
        /\ \A f \in 1..Len(TemplateFiles) :
              (TemplateFiles[f] \in PushedPaths) # (TemplateFiles[f] \in FailedPaths)
        /\ Len(push.files_pushed) + Len(push.files_failed) = Len(TemplateFiles)


\* C22: PolicyAgent.evaluate never raises, and when the graph run was aborted
\* by an exception at a node it returns the report of a gate that fails open:
\* approved, all severity counts 0, no violations, no suggested fixes, and the
\* text of the exception in the field error.
C22_EvaluateFailsOpen ==
    (graph = "policy" /\ returned # NoReturn) =>
        /\ returned.kind = "value"
        /\ raised =>
              /\ returned.value["approved"] = TRUE
              /\ \A sev \in Severities : returned.value["severity_summary"][sev] = 0
              /\ returned.value["violations"] = <<>>
              /\ returned.value["suggested_fixes"] = <<>>
              /\ returned.value["error"] = ExceptionText(trace[Len(trace)])

\* the scanning LLM answered a list of strings and _evaluate_violations raised
C22_Witness ==
    /\ graph = "policy" /\ raised
    /\ trace = <<"load_policies", "scan_content", "evaluate_violations">>
    /\ returned.kind = "value"
    /\ returned.value["approved"] = TRUE
    /\ returned.value["error"] = "'str' object has no attribute 'get'"


\* the messages of the stored session
StoredMessages == Get(chat.item, "messages", <<>>)

\* the stored session has the user message of call c and the reply given to it
Kept(c) ==
    LET mine == chat.calls[c].messages
    IN  /\ \E i \in 1..Len(StoredMessages) :
              StoredMessages[i] = [role |-> "user", content |-> UserMessages[c]]
        /\ \E i \in 1..Len(StoredMessages) : StoredMessages[i] = mine[Len(mine)]

\* C23: chat history is never lost: once two process_message calls on one
\* session_id have both returned, in whatever order their steps interleaved
\* and with the sessions table answering every request, the stored session
\* contains both user messages and both assistant replies.
C23_NoLostHistory ==
    (chat.pc = "serving" /\ ~chat.table_error /\ \A c \in CallIds : chat.calls[c].pc = "done")
        => \A c \in CallIds : Kept(c)


\* the execute_playbook invocations that have returned
Completed == Cardinality({i \in 1..Len(deltas) : trace[i] = "execute_playbook"})

\* C25: in a Remediation run started with retry_count = 0, retry_count equals
\* at every step the number of execute_playbook invocations completed so far,
\* it never exceeds 3, and no delta but execute_playbook's writes it.
C25_RetryCountCounts ==
    graph = "remediation" =>
        /\ state["retry_count"] = Completed
        /\ state["retry_count"] <= 3
        /\ \A i \in 1..Len(deltas) :
              "retry_count" \in DOMAIN deltas[i] => trace[i] = "execute_playbook"

C25_Witness ==
    /\ graph = "remediation" /\ Done
    /\ hist[1]["retry_count"] = 0
    /\ Completed = 3
    /\ state["retry_count"] = 3
    /\ state["notification_sent"]


\* C26: in a Migration run that reaches the terminal marker, parse_method is
\* 'llm' or 'regex' and generation_method is 'llm' or 'template' ('llm_failed'
\* does not survive), migration_report carries the same two values, and
\* success is True; migrate_pipeline therefore answers success = False, by
\* either of its return statements, only for a run that raised.
C26_TerminalMethods ==
    graph = "migration" =>
        /\ Done =>
              /\ state["parse_method"] \in {"llm", "regex"}
              /\ state["generation_method"] \in {"llm", "template"}
              /\ state["migration_report"]["parse_method"] = state["parse_method"]
              /\ state["migration_report"]["generation_method"] = state["generation_method"]
              /\ Get(state, "success", FALSE) = TRUE
        /\ returned # NoReturn =>
              /\ returned.branch = "not_success" => raised
              /\ ~returned.value["success"] => raised

\* both fallbacks were taken and migrate_pipeline reported the success
C26_Witness ==
    /\ graph = "migration" /\ Done
    /\ hist[2]["parse_method"] = "llm"
    /\ state["parse_method"] = "regex"
    /\ state["generation_method"] = "template"
    /\ returned # NoReturn
    /\ returned.branch = "success"
    /\ returned.value["migration_report"]["generation_method"] = "template"


\* the state handed to the node invoked k-th
Handed(k) == hist[k]

\* plan_tasks yielded an empty list or the status 'plan_failed'
PlanYieldedNothing == hist[2]["status"] = "plan_failed" \/ hist[2]["tasks"] = <<>>

\* C27: in a Planner run, store_workflow and dispatch_tasks are executed only
\* with a non-empty tasks list, which is the list of fallback_plan whenever
\* plan_tasks yielded an empty list or 'plan_failed'; and once dispatch_tasks
\* has been executed, exactly one task.created event per task has been
\* published, in list order.
C27_DispatchPerTask ==
    graph = "planner" =>
        \A k \in 1..Len(trace) :
            trace[k] \in {"store_workflow", "dispatch_tasks"} =>
                /\ Handed(k)["tasks"] # <<>>
                /\ PlanYieldedNothing =>
                      Handed(k)["tasks"] = FallbackPlanOf(Handed(k)["template"])
                /\ (trace[k] = "dispatch_tasks" /\ active = {}) =>
                      /\ Len(published) = Len(Handed(k)["tasks"])
                      /\ \A i \in 1..Len(published) :
                            published[i] = TaskCreated(Handed(k), Handed(k)["tasks"][i])


\* C28: a Planner run that reaches the terminal marker ends with status
\* 'in_progress' on either path, every intermediate status having been
\* overwritten; of the delta of a failed plan_tasks only the field error is
\* still in the final state, and no other run has that field.
C28_FinalStatus ==
    (graph = "planner" /\ Done) =>
        /\ state["status"] = "in_progress"
        /\ \A k \in 2..(Len(hist) - 1) :
              hist[k]["status"] \in {"planned", "plan_failed", "planned_fallback", "stored"}
        /\ ("error" \in DOMAIN state) = results[1].raised
        /\ results[1].raised =>
              /\ state["error"] = results[1].error
              /\ state["tasks"] # deltas[1]["tasks"]
              /\ state["status"] # deltas[1]["status"]

\* plan_tasks failed, the fallback plan was stored and dispatched
C28_Witness ==
    /\ graph = "planner" /\ Done
    /\ trace = <<"plan_tasks", "fallback_plan", "store_workflow", "dispatch_tasks">>
    /\ hist[2]["status"] = "plan_failed"
    /\ hist[3]["status"] = "planned_fallback"
    /\ hist[4]["status"] = "stored"
    /\ state["status"] = "in_progress"
    /\ state["error"] = "planning error"


\* find_playbook has returned and the eligibility gate sent the run past
\* execute_playbook
GateFailed == Len(hist) >= 4 /\ ~GatePassed

\* C29: in a Remediation run whose eligibility gate fails, store_and_notify,
\* once executed, has returned outcome = 'manual_intervention_required', and
\* the final state has no execution_result field and retry_count 0; and a run
\* ends with outcome 'success' only if some execute_playbook attempt reported
\* 'success'.
C29_GateFailedOutcome ==
    graph = "remediation" =>
        /\ (GateFailed /\ Len(trace) >= 4 /\ active = {}) =>
              /\ Done
              /\ deltas[4]["outcome"] = "manual_intervention_required"
              /\ state["outcome"] = "manual_intervention_required"
              /\ "execution_result" \notin DOMAIN state
              /\ state["retry_count"] = 0
        /\ (Done /\ state["outcome"] = "success") => ~NeverSuccess

=============================================================================
